---- MODULE Spec2Model ----
(***************************************************************************)
(* A model of Build_Compose_and_OOP.py: the form components               *)
(* (UIComponent, FormComponent, EnhancedFormComponent with its validation *)
(* helpers) and the authenticated component (AuthenticatedComponent,      *)
(* AdminDashboard).                                                        *)
(*                                                                         *)
(* Spec     : one form instance, from construction through any sequence   *)
(*            of update_state, add_validation, _validate_form and render. *)
(* SpecAuth : one authenticated component, from construction through any  *)
(*            sequence of set_auth_token and render.                      *)
(*                                                                         *)
(* add_validation, render and _validate_form of lines 212-262 are written *)
(* at the indentation of the class statement of EnhancedFormComponent;    *)
(* they are modelled as what their bodies do to the instance they get as  *)
(* self.                                                                   *)
(***************************************************************************)
EXTENDS Integers, Sequences, FiniteSets, TLC

VARIABLES
    cls,            \* the class of the form instance
    fields,         \* self.fields: the schema, a sequence of field records
    state,          \* self._state: a mapping from key to value
    validations,    \* self._validations: insertion-ordered, <<[name, rules]>>
    last,           \* the last call on the form and what it showed or raised
    required_roles, \* AuthenticatedComponent._required_roles
    auth_token,     \* AuthenticatedComponent.__auth_token
    accepted,       \* history: a set_auth_token call has returned
    authlast        \* the last call on the authenticated component

formvars == <<cls, fields, state, validations, last>>
authvars == <<required_roles, auth_token, accepted, authlast>>
vars == <<cls, fields, state, validations, last,
          required_roles, auth_token, accepted, authlast>>

----------------------------------------------------------------------------
(* Python values: None, str and int, tagged so that any two compare.       *)

None == [tag |-> "None", s |-> "", n |-> 0]
T(x) == [tag |-> "str", s |-> x, n |-> 0]
N(x) == [tag |-> "int", s |-> "", n |-> x]

\* Python truthiness: None, "" and 0 are false.
Truthy(v) == ~(v = None \/ v = T("") \/ v = N(0))

\* The expression  v or d.
PyOr(v, d) == IF Truthy(v) THEN v ELSE d

\* str(v), as st.text_input casts its value.
PyStr(v) == IF v.tag = "int" THEN T(ToString(v.n)) ELSE IF v.tag = "None" THEN T("None") ELSE v

----------------------------------------------------------------------------
(* The schema: the field dictionaries of lines 74-80, 84-88 and 272-276.   *)

Field(name, type, options) == [name |-> name, type |-> type, options |-> options]

F_username == Field("username", "text", <<>>)
F_age == Field("age", "number", <<>>)
F_gender == Field("gender", "select", <<"A", "B">>)
F_gender_empty == Field("gender", "select", <<>>)

\* The keys update_state and add_validation are called with.  No schema
\* below holds all of them, so every form has a name outside its schema.
Keys == {"username", "age", "gender"}

Schemas ==
    { <<>>,
      <<F_age>>,
      <<F_gender>>,
      <<F_gender_empty>>,
      <<F_username, F_age>>,
      <<F_age, F_username>> }

FieldNames(fs) == {fs[i].name : i \in 1..Len(fs)}

\* The schemas of the forms with validation: the registration form of
\* lines 272-276, in both orders of its fields, and its smaller forms.
RegistrationSchemas ==
    { <<>>,
      <<F_age>>,
      <<F_username, F_age>>,
      <<F_age, F_username>> }

\* The values update_state is called with.
Values == {None, N(17), T("A"), T("C")}

----------------------------------------------------------------------------
(* UIComponent                                                             *)

\* The assignment as one that takes only the keys the mapping has.
Put_ExistingOnly(st, key, value) ==
    [k \in DOMAIN st |-> IF k = key THEN value ELSE st[k]]

\* The assignment as one that replaces the mapping: self._state = {key: value}.
Put_Alone(st, key, value) == [k \in {key} |-> value]

\* self._state[key] = value
Put(st, key, value) ==
    [k \in (DOMAIN st) \cup {key} |-> IF k = key THEN value ELSE st[k]]

\* self._state.get(key)
get_state(st, key) == IF key \in DOMAIN st THEN st[key] ELSE None

EmptyState == [k \in {} |-> None]

\* The record of a call: its arguments, whether the user left every widget
\* as it was (kept), what raised ("none", "widget", "validation"), and what
\* the call showed: st.success (success), st.json (json), st.error (errors).
NoCall == [op |-> "init", key |-> "", value |-> None, fn |-> "",
           kept |-> FALSE, raised |-> "none", submitted |-> FALSE,
           success |-> FALSE, json |-> FALSE, errors |-> <<>>, valid |-> TRUE]

\* update_state as one that refuses a key the schema does not name.
update_state_Checked(key, value) ==
    /\ IF key \in FieldNames(fields)
       THEN /\ state' = [k \in (DOMAIN state) \cup {key} |->
                            IF k = key THEN value ELSE state[k]]
            /\ last' = [NoCall EXCEPT !.op = "update_state", !.key = key,
                                      !.value = value]
       ELSE /\ state' = state
            /\ last' = [NoCall EXCEPT !.op = "update_state", !.key = key,
                                      !.value = value, !.raised = "UnknownFieldError"]
    /\ UNCHANGED <<cls, fields, validations>>

\* UIComponent.update_state(key, value)
update_state(key, value) ==
    /\ state' = Put(state, key, value)
    /\ last' = [NoCall EXCEPT !.op = "update_state", !.key = key, !.value = value]
    /\ UNCHANGED <<cls, fields, validations>>

----------------------------------------------------------------------------
(* The widgets.  Each returns what the user entered, or, when the user    *)
(* entered nothing (Keep), the value it was given.                         *)

Keep == [tag |-> "keep", s |-> "", n |-> 0]

\* What the user can enter in the widget of a field.
UserInputs(f) ==
    {Keep} \cup
    CASE f.type = "text" -> {T("bob")}
      [] f.type = "number" -> {N(30)}
      [] f.type = "select" -> {T(f.options[i]) : i \in 1..Len(f.options)}
      [] OTHER -> {}

Returned(v) == [raised |-> FALSE, value |-> v]
Raised == [raised |-> TRUE, value |-> None]

\* st.text_input(label, value=value): value is cast to str.
text_input(value, user) == Returned(IF user = Keep THEN PyStr(value) ELSE user)

\* st.number_input(label, value=value): a value that is no number is refused.
number_input(value, user) ==
    IF value.tag # "int" THEN Raised
    ELSE Returned(IF user = Keep THEN value ELSE user)

\* st.selectbox(label, options=options, index=index): no options, no selection.
selectbox(options, index, user) ==
    IF Len(options) = 0 THEN Returned(None)
    ELSE Returned(IF user = Keep THEN T(options[index]) ELSE user)

\* value in options
InOptions(value, options) ==
    value.tag = "str" /\ \E i \in 1..Len(options) : options[i] = value.s

\* The index as one that is always that of the first option.
SelectIndex_First(value, options) == 1

\* options.index(value) if value in options else 0   (1-based here)
SelectIndex(value, options) ==
    IF InOptions(value, options)
    THEN CHOOSE i \in 1..Len(options) :
            /\ options[i] = value.s
            /\ \A j \in 1..(i - 1) : options[j] # value.s
    ELSE 1

\* The loop body without the  or ""  and  or 0  of the values given.
RenderField_NoDefault(f, st, user) ==
    CASE f.type = "text" -> text_input(get_state(st, f.name), user)
      [] f.type = "number" -> number_input(get_state(st, f.name), user)
      [] f.type = "select" ->
            selectbox(f.options, SelectIndex(get_state(st, f.name), f.options), user)

\* One pass of the loop body of render for field f.
RenderField(f, st, user) ==
    CASE f.type = "text" -> text_input(PyOr(get_state(st, f.name), T("")), user)
      [] f.type = "number" -> number_input(PyOr(get_state(st, f.name), N(0)), user)
      [] f.type = "select" ->
            selectbox(f.options, SelectIndex(get_state(st, f.name), f.options), user)

\* for field in self.fields: self._state[field["name"]] = <widget>
\* An exception of a widget leaves the earlier fields assigned.
RECURSIVE RenderFields(_, _, _, _)
RenderFields(fs, i, st, inputs) ==
    IF i > Len(fs) THEN [state |-> st, raised |-> FALSE]
    ELSE LET r == RenderField(fs[i], st, inputs[i])
         IN IF r.raised THEN [state |-> st, raised |-> TRUE]
            ELSE RenderFields(fs, i + 1, Put(st, fs[i].name, r.value), inputs)

\* The user entered nothing.
Kept(inputs) == \A i \in DOMAIN inputs : inputs[i] = Keep

\* The user's input of one render pass: one entry per field.
RenderInputs(fs) ==
    {inp \in [1..Len(fs) -> UNION {UserInputs(fs[i]) : i \in 1..Len(fs)}] :
        \A i \in 1..Len(fs) : inp[i] \in UserInputs(fs[i])}

----------------------------------------------------------------------------
(* The validation functions of the example (lines 269-308).                *)

Fns == {"username", "email", "age"}

\* The calls of add_validation, as <<field_name, validation_fn>>: those of
\* lines 292-308, the rule of the email field on the username field.  The
\* forms without a username or an age field get them for a name outside
\* their schema.
Registrations ==
    { <<"username", "username">>,
      <<"username", "email">>,
      <<"age", "age">> }

\* The error message registered with each function (lines 295, 301, 307).
Msg(fn) ==
    CASE fn = "username" -> "Username must be 3-20 characters (letters, numbers, underscores)"
      [] fn = "email" -> "Please enter a valid email address"
      [] fn = "age" -> "Age must be between 18 and 120"

\* re.match(r"^[a-zA-Z0-9_]{3,20}$", x): every string of the model is made
\* of letters and digits alone, so the length decides.
UsernameMatch(x) == 3 <= Len(x) /\ Len(x) <= 20

\* re.match(r"^[^@]+@[^@]+\.[^@]+$", email): no string of the model holds an @.
EmailMatch(x) == FALSE

\* validation_fn(field_value): "true", "false", or "raise" (the TypeError of
\* re.match on a value that is no str, of <= between an int and a str or None).
Call(fn, v) ==
    CASE fn = "username" ->
            IF v.tag # "str" THEN "raise" ELSE IF UsernameMatch(v.s) THEN "true" ELSE "false"
      [] fn = "email" ->
            IF v.tag # "str" THEN "raise" ELSE IF EmailMatch(v.s) THEN "true" ELSE "false"
      [] fn = "age" ->
            IF v.tag # "int" THEN "raise" ELSE IF 18 <= v.n /\ v.n <= 120 THEN "true" ELSE "false"

----------------------------------------------------------------------------
(* EnhancedFormComponent                                                   *)

HasKey(vs, name) == \E i \in 1..Len(vs) : vs[i].name = name

\* add_validation as one that assigns the list: [(validation_fn, error_message)].
AddRule_Replace(vs, name, fn, msg) ==
    LET ws == IF HasKey(vs, name) THEN vs ELSE Append(vs, [name |-> name, rules |-> <<>>])
    IN [i \in 1..Len(ws) |->
            IF ws[i].name = name
            THEN [ws[i] EXCEPT !.rules = <<[fn |-> fn, msg |-> msg]>>]
            ELSE ws[i]]

\* add_validation: a new key goes to the end of the dictionary, the rule to
\* the end of its key's list.
AddRule(vs, name, fn, msg) ==
    LET ws == IF HasKey(vs, name) THEN vs ELSE Append(vs, [name |-> name, rules |-> <<>>])
    IN [i \in 1..Len(ws) |->
            IF ws[i].name = name
            THEN [ws[i] EXCEPT !.rules = Append(@, [fn |-> fn, msg |-> msg])]
            ELSE ws[i]]

RECURSIVE CountRules(_)
CountRules(vs) == IF vs = <<>> THEN 0 ELSE Len(Head(vs).rules) + CountRules(Tail(vs))

Verdict0 == [valid |-> TRUE, errors |-> <<>>, raised |-> FALSE]

\* The inner loop as one that leaves at the first failing rule.
RunRules_ShortCircuit(name, value, rules, acc) ==
    LET failing == {i \in 1..Len(rules) : Call(rules[i].fn, value) # "true"}
    IN IF failing = {} THEN acc
       ELSE LET i == CHOOSE k \in failing : \A m \in failing : k <= m
            IN IF Call(rules[i].fn, value) = "raise"
               THEN [acc EXCEPT !.raised = TRUE]
               ELSE [acc EXCEPT !.valid = FALSE,
                                !.errors = Append(@, <<name, rules[i].msg>>)]

\* for validation_fn, error_message in validations: ...
RECURSIVE RunRules(_, _, _, _)
RunRules(name, value, rules, acc) ==
    IF rules = <<>> THEN acc
    ELSE LET r == Head(rules)
             c == Call(r.fn, value)
         IN CASE c = "raise" -> [acc EXCEPT !.raised = TRUE]
              [] c = "false" ->
                    RunRules(name, value, Tail(rules),
                             [acc EXCEPT !.valid = FALSE,
                                         !.errors = Append(@, <<name, r.msg>>)])
              [] OTHER -> RunRules(name, value, Tail(rules), acc)

\* for field_name, validations in self._validations.items(): ...
RECURSIVE RunFields(_, _, _)
RunFields(vs, st, acc) ==
    IF vs = <<>> THEN acc
    ELSE LET a == RunRules(Head(vs).name, get_state(st, Head(vs).name), Head(vs).rules, acc)
         IN IF a.raised THEN a ELSE RunFields(Tail(vs), st, a)

\* _validate_form(): the errors shown by st.error, the value returned, and
\* whether a validation function raised.
validate_form(vs, st) == RunFields(vs, st, Verdict0)

----------------------------------------------------------------------------
(* The calls on a form                                                     *)

MaxRules == 2

\* add_validation(field_name, validation_fn, error_message)
add_validation(name, fn) ==
    /\ cls = "EnhancedFormComponent"
    /\ CountRules(validations) < MaxRules
    /\ validations' = AddRule(validations, name, fn, Msg(fn))
    /\ last' = [NoCall EXCEPT !.op = "add_validation", !.key = name, !.fn = fn]
    /\ UNCHANGED <<cls, fields, state>>

\* _validate_form as one that reads the value with self._state.setdefault.
ValidateForm_SetDefault ==
    /\ cls = "EnhancedFormComponent"
    /\ LET v == validate_form(validations, state)
       IN last' = [NoCall EXCEPT !.op = "validate",
                                 !.raised = IF v.raised THEN "validation" ELSE "none",
                                 !.errors = v.errors, !.valid = v.valid]
    /\ state' = [k \in (DOMAIN state) \cup {validations[i].name : i \in 1..Len(validations)} |->
                    get_state(state, k)]
    /\ UNCHANGED <<cls, fields, validations>>

\* _validate_form(), called on its own
ValidateForm ==
    /\ cls = "EnhancedFormComponent"
    /\ LET v == validate_form(validations, state)
       IN last' = [NoCall EXCEPT !.op = "validate",
                                 !.raised = IF v.raised THEN "validation" ELSE "none",
                                 !.errors = v.errors, !.valid = v.valid]
    /\ UNCHANGED <<cls, fields, state, validations>>

\* FormComponent.render(): the submit branch reports success.
RenderForm(inputs, submitted) ==
    /\ cls = "FormComponent"
    /\ LET r == RenderFields(fields, 1, state, inputs)
           done == ~r.raised /\ submitted
       IN /\ state' = r.state
          /\ last' = [NoCall EXCEPT !.op = "render", !.kept = Kept(inputs),
                                    !.raised = IF r.raised THEN "widget" ELSE "none",
                                    !.submitted = done,
                                    !.success = done, !.json = done]
    /\ UNCHANGED <<cls, fields, validations>>

\* The render of lines 217-252 with the submit branch of FormComponent.render.
RenderEnhanced_NoValidation(inputs, submitted) ==
    /\ cls = "EnhancedFormComponent"
    /\ LET r == RenderFields(fields, 1, state, inputs)
           done == ~r.raised /\ submitted
       IN /\ state' = r.state
          /\ last' = [NoCall EXCEPT !.op = "render", !.kept = Kept(inputs),
                                    !.raised = IF r.raised THEN "widget" ELSE "none",
                                    !.submitted = done,
                                    !.success = done, !.json = done]
    /\ UNCHANGED <<cls, fields, validations>>

\* render() of lines 217-252: the submit branch reports success if
\* _validate_form() returns true.
RenderEnhanced(inputs, submitted) ==
    /\ cls = "EnhancedFormComponent"
    /\ LET r == RenderFields(fields, 1, state, inputs)
           done == ~r.raised /\ submitted
           v == IF done THEN validate_form(validations, r.state) ELSE Verdict0
           ok == done /\ ~v.raised /\ v.valid
       IN /\ state' = r.state
          /\ last' = [NoCall EXCEPT !.op = "render", !.kept = Kept(inputs),
                                    !.raised = IF r.raised THEN "widget"
                                               ELSE IF v.raised THEN "validation"
                                               ELSE "none",
                                    !.submitted = done,
                                    !.errors = v.errors, !.valid = v.valid,
                                    !.success = ok, !.json = ok]
    /\ UNCHANGED <<cls, fields, validations>>

----------------------------------------------------------------------------
(* AuthenticatedComponent                                                  *)

\* len(token) < 10
MinTokenLen == 10

\* user_roles = ["admin"]
user_roles == <<"admin">>

\* The required_roles a component is built with: none, those of
\* AdminDashboard, and lists with another role.
RoleLists ==
    { <<>>, <<"admin">>, <<"editor">>, <<"editor", "admin">>, <<"admin", "editor">> }

\* The tokens set_auth_token is called with: the one of line 199, strings of
\* 0, 5, 9, 10 and 11 characters, and values that are no strings.
Tokens ==
    { None, N(1234567890), T(""), T("short"), T("123456789"),
      T("1234567890"), T("12345678901"), T("valid_token_1234567890") }

AuthNoCall == [op |-> "init", token |-> None, raised |-> FALSE, shown |-> ""]

\* The check with the length one short.
InvalidToken_Short(token) == token.tag # "str" \/ Len(token.s) < MinTokenLen - 1

\* not isinstance(token, str) or len(token) < 10
InvalidToken(token) == token.tag # "str" \/ Len(token.s) < MinTokenLen

\* set_auth_token(token)
set_auth_token(token) ==
    /\ IF InvalidToken(token)
       THEN /\ authlast' = [AuthNoCall EXCEPT !.op = "set_auth_token", !.token = token,
                                              !.raised = TRUE]
            /\ UNCHANGED <<auth_token, accepted>>
       ELSE /\ auth_token' = token
            /\ accepted' = TRUE
            /\ authlast' = [AuthNoCall EXCEPT !.op = "set_auth_token", !.token = token]
    /\ UNCHANGED required_roles

\* any(role in self._required_roles for role in user_roles)
validate_role(required, roles) ==
    \E i \in 1..Len(roles) : \E j \in 1..Len(required) : required[j] = roles[i]

\* What render shows: an error, or the success line and the content of
\* _render_authenticated_content.
AuthShown(token, required) ==
    IF ~Truthy(token) THEN "Authentication required"
    ELSE IF Len(required) > 0 /\ ~validate_role(required, user_roles)
         THEN "Insufficient permissions"
         ELSE "content"

\* AuthenticatedComponent.render()
AuthRender ==
    /\ authlast' = [AuthNoCall EXCEPT !.op = "render",
                                      !.shown = AuthShown(auth_token, required_roles)]
    /\ UNCHANGED <<required_roles, auth_token, accepted>>

AuthIdle ==
    /\ required_roles = <<>>
    /\ auth_token = None
    /\ accepted = FALSE
    /\ authlast = AuthNoCall

FormIdle ==
    /\ cls = "FormComponent"
    /\ fields = <<>>
    /\ state = EmptyState
    /\ validations = <<>>
    /\ last = NoCall

\* AuthenticatedComponent(title, required_roles): required_roles or []
InitAuth ==
    /\ required_roles \in RoleLists
    /\ auth_token = None
    /\ accepted = FALSE
    /\ authlast = AuthNoCall
    /\ FormIdle

NextAuth ==
    \/ \E token \in Tokens : set_auth_token(token) /\ UNCHANGED formvars
    \/ AuthRender /\ UNCHANGED formvars

SpecAuth == InitAuth /\ [][NextAuth]_vars

\* FormComponent(title, fields) / EnhancedFormComponent(title, fields)
Init ==
    /\ \/ cls = "FormComponent" /\ fields \in Schemas
       \/ cls = "EnhancedFormComponent" /\ fields \in RegistrationSchemas
    /\ state = EmptyState
    /\ validations = <<>>
    /\ last = NoCall
    /\ AuthIdle

Next ==
    \/ \E key \in Keys, value \in Values :
            update_state(key, value) /\ UNCHANGED authvars
    \/ \E reg \in Registrations :
            add_validation(reg[1], reg[2]) /\ UNCHANGED authvars
    \/ ValidateForm /\ UNCHANGED authvars
    \/ \E inputs \in RenderInputs(fields), submitted \in BOOLEAN :
            RenderForm(inputs, submitted) /\ UNCHANGED authvars
    \/ \E inputs \in RenderInputs(fields), submitted \in BOOLEAN :
            RenderEnhanced(inputs, submitted) /\ UNCHANGED authvars

Spec == Init /\ [][Next]_vars

----------------------------------------------------------------------------
(* The properties                                                          *)

\* A render pass that ran its loop over the fields to the end.
RenderDone(c) == c.op = "render" /\ c.raised # "widget"

\* C1, as stated: in every reachable state the keyset of the state mapping
\* is the set of the schema's field names.
C1_KeysetIsSchema == DOMAIN state = FieldNames(fields)

\* C1, amended: the state mapping is empty right after construction; a
\* render pass that completes adds exactly the schema's field names to the
\* keyset, update_state adds exactly its key, and no other call changes the
\* keyset.
C1_KeysetGrowth ==
    /\ [](last.op = "init" => DOMAIN state = {})
    /\ [][ /\ RenderDone(last') =>
                DOMAIN state' = (DOMAIN state) \cup FieldNames(fields)
           /\ last'.op = "update_state" =>
                DOMAIN state' = (DOMAIN state) \cup {last'.key}
           /\ last'.op \in {"add_validation", "validate"} =>
                DOMAIN state' = DOMAIN state ]_vars

\* A render pass has completed on a form with two fields, and the keyset is
\* the schema's field names.
C1_Witness ==
    /\ RenderDone(last)
    /\ Len(fields) = 2
    /\ DOMAIN state = FieldNames(fields)

\* C2, as stated: update_state with a name that is not in the schema fails
\* and leaves the state as it was.
C2_UnknownFieldRefused ==
    [][ (last'.op = "update_state" /\ last'.key \notin FieldNames(fields)) =>
            (last'.raised # "none" /\ state' = state) ]_vars

\* C2, amended: update_state with a name that is not in the schema does not
\* fail: it stores the value under that name, adding the key when the
\* mapping has none, and leaves every other key as it was.
C2_UnknownFieldStored ==
    [][ (last'.op = "update_state" /\ last'.key \notin FieldNames(fields)) =>
            /\ last'.raised = "none"
            /\ DOMAIN state' = (DOMAIN state) \cup {last'.key}
            /\ state'[last'.key] = last'.value
            /\ \A k \in (DOMAIN state) \ {last'.key} : state'[k] = state[k] ]_vars

\* update_state has stored a value under a name the schema does not hold,
\* next to the fields a render pass stored.
C2_Witness ==
    /\ last.op = "update_state"
    /\ last.key \notin FieldNames(fields)
    /\ last.key \in DOMAIN state
    /\ state[last.key] = last.value
    /\ FieldNames(fields) # {}
    /\ FieldNames(fields) \subseteq DOMAIN state

\* A Select field that has options.
HasOptions(f) == f.type = "select" /\ Len(f.options) > 0

\* C3, as stated: the value stored for a Select field is always one of the
\* field's options.
C3_SelectAlwaysInOptions ==
    \A i \in 1..Len(fields) :
        (HasOptions(fields[i]) /\ fields[i].name \in DOMAIN state) =>
            InOptions(state[fields[i].name], fields[i].options)

\* C3, amended: after a render pass that completes, the value stored for a
\* Select field with options is one of them: when the user chose nothing,
\* the value stored before if it is an option, else the first option.
\* update_state with a value outside the options does not fail and stores it.
C3_SelectInOptionsAfterRender ==
    /\ [](RenderDone(last) =>
            \A i \in 1..Len(fields) :
                HasOptions(fields[i]) =>
                    InOptions(state[fields[i].name], fields[i].options))
    /\ [][ \A i \in 1..Len(fields) :
             HasOptions(fields[i]) =>
                LET f == fields[i]
                    old == get_state(state, f.name)
                IN /\ (RenderDone(last') /\ last'.kept) =>
                        state'[f.name] =
                            IF InOptions(old, f.options) THEN old ELSE T(f.options[1])
                   /\ (/\ last'.op = "update_state"
                       /\ last'.key = f.name
                       /\ ~InOptions(last'.value, f.options)) =>
                        (last'.raised = "none" /\ state'[f.name] = last'.value) ]_vars

\* A render pass in which the user chose nothing has kept the second option.
C3_Witness ==
    /\ RenderDone(last)
    /\ last.kept
    /\ fields = <<F_gender>>
    /\ state["gender"] = T("B")

\* A (name, value) pair that fits the schema: the name is a field's, the
\* value is of the field's kind and, for a Select field, one of its options.
ValidPair(fs, name, value) ==
    \E i \in 1..Len(fs) :
        /\ fs[i].name = name
        /\ CASE fs[i].type = "text" -> value.tag = "str"
             [] fs[i].type = "number" -> value.tag = "int"
             [] fs[i].type = "select" -> InOptions(value, fs[i].options)

\* C6, as stated: update_state with a pair that fits the schema changes the
\* entry of that name and leaves every other entry and the keyset unchanged.
C6_KeysetUnchanged ==
    [][ (last'.op = "update_state" /\ ValidPair(fields, last'.key, last'.value)) =>
            /\ DOMAIN state' = DOMAIN state
            /\ state'[last'.key] = last'.value
            /\ \A k \in (DOMAIN state) \ {last'.key} : state'[k] = state[k] ]_vars

\* C6, amended: update_state with a pair that fits the schema sets the entry
\* of that name to the value and leaves the value of every other key
\* unchanged; the keyset is unchanged when the name is a key already, and
\* grows by the name when it is not (before the first render pass).
C6_OnlyThatKey ==
    [][ (last'.op = "update_state" /\ ValidPair(fields, last'.key, last'.value)) =>
            /\ DOMAIN state' = (DOMAIN state) \cup {last'.key}
            /\ state'[last'.key] = last'.value
            /\ \A k \in (DOMAIN state) \ {last'.key} : state'[k] = state[k] ]_vars

\* update_state has set a field of a form with two fields, whose other
\* field holds what a render pass stored.
C6_Witness ==
    /\ last.op = "update_state"
    /\ ValidPair(fields, last.key, last.value)
    /\ state[last.key] = last.value
    /\ Len(fields) = 2
    /\ DOMAIN state = FieldNames(fields)

\* The default of a field's kind.
Default(f) ==
    CASE f.type = "text" -> T("")
      [] f.type = "number" -> N(0)
      [] f.type = "select" -> T(f.options[1])

DefaultState(fs) ==
    [name \in FieldNames(fs) |->
        Default(fs[CHOOSE i \in 1..Len(fs) : fs[i].name = name])]

NoEmptySelect(fs) ==
    \A i \in 1..Len(fs) : fs[i].type = "select" => Len(fs[i].options) > 0

\* C7, as stated: construction gives every field its default, and fails for
\* a Select field without options.
C7_DefaultsAtCreation ==
    last.op = "init" =>
        IF NoEmptySelect(fields)
        THEN state = DefaultState(fields)
        ELSE last.raised = "SchemaError"

\* C7, amended: construction never fails and gives the empty mapping,
\* whatever the schema; the first render pass, when the user enters nothing,
\* stores the default of its kind for every field of a schema whose Select
\* fields have options (and nothing for the empty schema).
C7_DefaultsAtFirstRender ==
    /\ [](last.op = "init" => (state = EmptyState /\ last.raised = "none"))
    /\ [][ (/\ last'.op = "render"
            /\ last'.kept
            /\ state = EmptyState
            /\ NoEmptySelect(fields)) =>
                (last'.raised # "widget" /\ state' = DefaultState(fields)) ]_vars

\* The render pass of a form with a text and a number field, the user having
\* entered nothing, has stored "" and 0.
C7_Witness ==
    /\ RenderDone(last)
    /\ last.kept
    /\ fields = <<F_username, F_age>>
    /\ state = DefaultState(fields)
    /\ state["username"] = T("")
    /\ state["age"] = N(0)

\* The rules registered for a name, in registration order.
RulesOf(vs, name) ==
    IF HasKey(vs, name)
    THEN vs[CHOOSE i \in 1..Len(vs) : vs[i].name = name].rules
    ELSE <<>>

\* The names that have rules, in the order of their first registration.
KeysOf(vs) == [i \in 1..Len(vs) |-> vs[i].name]

\* C8, as stated: add_validation appends the rule to its field's list and
\* leaves the other lists unchanged, and for a name that is not in the schema
\* fails and registers nothing.
C8_UnknownFieldNotRegistered ==
    [][ last'.op = "add_validation" =>
            IF last'.key \in FieldNames(fields)
            THEN /\ RulesOf(validations', last'.key) =
                        Append(RulesOf(validations, last'.key),
                               [fn |-> last'.fn, msg |-> Msg(last'.fn)])
                 /\ \A n \in Keys \ {last'.key} :
                        RulesOf(validations', n) = RulesOf(validations, n)
            ELSE last'.raised # "none" /\ validations' = validations ]_vars

\* C8, amended: add_validation appends the rule to the end of the named
\* field's list and leaves the lists of the other fields unchanged, a name
\* without rules going after the names that have some; it does so for a name
\* outside the schema too, and never fails.
C8_AppendsForAnyName ==
    [][ last'.op = "add_validation" =>
            /\ last'.raised = "none"
            /\ RulesOf(validations', last'.key) =
                    Append(RulesOf(validations, last'.key),
                           [fn |-> last'.fn, msg |-> Msg(last'.fn)])
            /\ \A n \in Keys \ {last'.key} :
                    RulesOf(validations', n) = RulesOf(validations, n)
            /\ KeysOf(validations') =
                    IF HasKey(validations, last'.key)
                    THEN KeysOf(validations)
                    ELSE Append(KeysOf(validations), last'.key) ]_vars

\* A second rule has been appended to a field's list.
C8_Witness ==
    /\ last.op = "add_validation"
    /\ Len(RulesOf(validations, last.key)) = 2
    /\ RulesOf(validations, last.key)[2] = [fn |-> last.fn, msg |-> Msg(last.fn)]
    /\ RulesOf(validations, last.key)[1].fn # last.fn

\* The rules of a dictionary of rule lists as one sequence.
RECURSIVE Flat(_)
Flat(vs) ==
    IF vs = <<>> THEN <<>>
    ELSE [i \in 1..Len(Head(vs).rules) |->
                [name |-> Head(vs).name, rule |-> Head(vs).rules[i]]]
         \o Flat(Tail(vs))

\* The rules walked field by field in schema order.
SchemaWalk(fs, vs) ==
    Flat([i \in 1..Len(fs) |-> [name |-> fs[i].name, rules |-> RulesOf(vs, fs[i].name)]])

Outcome(e, st) == Call(e.rule.fn, get_state(st, e.name))

\* The errors of the rules of a sequence whose function returns false.
ErrorsOf(es, st) ==
    LET failing == SelectSeq(es, LAMBDA e : Outcome(e, st) = "false")
    IN [i \in 1..Len(failing) |-> <<failing[i].name, failing[i].rule.msg>>]

\* The rules of a sequence before the first whose function raises.
BeforeRaise(es, st) ==
    LET raising == {i \in 1..Len(es) : Outcome(es[i], st) = "raise"}
    IN IF raising = {} THEN es
       ELSE SubSeq(es, 1, (CHOOSE k \in raising : \A m \in raising : k <= m) - 1)

\* The call was a pass of _validate_form.
Validated(c) == c.op = "validate" \/ (c.op = "render" /\ c.submitted)

\* C4, as stated: the errors are those of the failing rules, field by field
\* in schema order and rule by rule in registration order (every rule being
\* one of a field of the schema, as the statement has it).
C4_ErrorsInSchemaOrder ==
    (/\ Validated(last)
     /\ last.raised = "none"
     /\ \A i \in 1..Len(validations) : validations[i].name \in FieldNames(fields)) =>
        last.errors = ErrorsOf(SchemaWalk(fields, validations), state)

\* C4, amended: _validate_form reports every rule whose function returns
\* false, without leaving at a failing rule, field by field in the order in
\* which the names were first given a rule and rule by rule in registration
\* order, names outside the schema included; a function that raises ends the
\* pass, the errors before it shown.
C4_ErrorsInRegistrationOrder ==
    Validated(last) =>
        /\ last.errors = ErrorsOf(BeforeRaise(Flat(validations), state), state)
        /\ (last.raised = "none") <=>
                (BeforeRaise(Flat(validations), state) = Flat(validations))

\* Both fields of the form fail their rule, and the errors come in the order
\* of registration, which is not that of the schema.
C4_Witness ==
    /\ Validated(last)
    /\ last.raised = "none"
    /\ fields = <<F_username, F_age>>
    /\ Len(last.errors) = 2
    /\ last.errors[1][1] = "age"
    /\ last.errors[2][1] = "username"

\* No registered rule's function returns false on the value of its field.
NoRuleFalse(vs, st) ==
    \A i \in 1..Len(vs) : \A j \in 1..Len(vs[i].rules) :
        Call(vs[i].rules[j].fn, get_state(st, vs[i].name)) # "false"

\* C5: a submission is accepted iff no registered rule fails on the current
\* state: _validate_form returns true exactly when it showed no error, and
\* the submit branch shows success and the state exactly then (a form
\* without rules is always accepted; nothing is accepted when a validation
\* function raises).
C5_AcceptedIffNoErrors ==
    /\ (last.op = "render" /\ last.submitted) =>
            /\ last.json = last.success
            /\ last.raised = "none" =>
                    /\ last.success <=> (last.errors = <<>>)
                    /\ last.success <=> NoRuleFalse(validations, state)
            /\ last.raised # "none" => ~last.success
    /\ (last.op = "render" /\ ~last.submitted) => (~last.success /\ last.errors = <<>>)
    /\ (last.op = "validate" /\ last.raised = "none") =>
            /\ last.valid <=> (last.errors = <<>>)
            /\ last.valid <=> NoRuleFalse(validations, state)

\* The form with the rule 18 <= age <= 120 has been submitted with age 30
\* and accepted.
C5_Witness ==
    /\ last.op = "render"
    /\ last.submitted
    /\ last.success
    /\ fields = <<F_age>>
    /\ RulesOf(validations, "age") = <<[fn |-> "age", msg |-> Msg("age")]>>
    /\ state["age"] = N(30)

\* C9: _validate_form changes neither the state nor the rules; called again
\* on the pair a pass has just judged (by a call or by a submission) it
\* returns the same value and shows the same errors, and it accepts only a
\* state no rule fails on now, whatever was accepted before.
C9_ValidatePure ==
    [][ last'.op = "validate" =>
            /\ state' = state
            /\ validations' = validations
            /\ fields' = fields
            /\ Validated(last) /\ cls = "EnhancedFormComponent" =>
                    /\ last'.valid = last.valid
                    /\ last'.errors = last.errors
                    /\ (last'.raised = "validation") <=> (last.raised = "validation")
            /\ (last'.valid /\ last'.raised = "none") =>
                    NoRuleFalse(validations', state') ]_vars

\* _validate_form has rejected a state, with a rule registered for a name
\* the state has no key for.
C9_Witness ==
    /\ last.op = "validate"
    /\ ~last.valid
    /\ Len(last.errors) = 1
    /\ \E i \in 1..Len(validations) : validations[i].name \notin DOMAIN state

\* C10: render shows the protected content only if a set_auth_token call
\* has returned (its token a string of at least 10 characters) and, when
\* roles are required, one of the user's roles is among them; a call of
\* set_auth_token with a value that is no string, or a string of fewer than
\* 10 characters, raises and leaves the stored token as it was.
C10_ContentNeedsToken ==
    /\ []((authlast.op = "render" /\ authlast.shown = "content") =>
            /\ accepted
            /\ auth_token.tag = "str"
            /\ Len(auth_token.s) >= MinTokenLen
            /\ Len(required_roles) > 0 =>
                    \E i \in 1..Len(user_roles) : \E j \in 1..Len(required_roles) :
                        user_roles[i] = required_roles[j])
    /\ [][ (/\ authlast'.op = "set_auth_token"
            /\ \/ authlast'.token.tag # "str"
               \/ Len(authlast'.token.s) < MinTokenLen) =>
                (authlast'.raised /\ auth_token' = auth_token /\ accepted' = accepted) ]_vars

\* The admin dashboard has rendered its content.
C10_Witness ==
    /\ authlast.op = "render"
    /\ authlast.shown = "content"
    /\ required_roles = <<"admin">>
    /\ accepted

====
